---- MODULE Spec2Model ----
(***************************************************************************)
(* A model of cctop's analytical core: the statistics helpers, the token   *)
(* limit estimator, the burn rate calculator and the session status.       *)
(*                                                                         *)
(* Time is counted in whole minutes.  float64 values are kept as exact     *)
(* rationals <<numerator, denominator>>.  Where the source truncates a     *)
(* float64 expression to an integer and the exact value of the expression  *)
(* is itself an integer, the float64 value may lie just below it, so both  *)
(* the integer and its predecessor are outcomes.                           *)
(***************************************************************************)
EXTENDS Integers, Sequences, FiniteSets, TLC

VARIABLES
    values,     \* the caller's []int handed to a statistics function
    call,       \* the last statistics call: function, argument as passed, result
    blocks,     \* []Block as returned by ccusage
    plan,       \* the --plan flag
    est,        \* the last EstimateLimit / GetActualPlan evaluation
    now,        \* currentTime of the analysis pass, in minutes
    rate,       \* the last burn rate evaluation
    tokenLimit, \* the monitor's token limit
    session,    \* the Session built by NewSession
    clock,      \* the wall clock read by time.Now(), in minutes
    status,     \* the last GetStatus evaluation
    monitor     \* the monitor loop: where it is and what the last cycle did

vars == <<values, call, blocks, plan, est, now, rate, tokenLimit, session, clock, status,
          monitor>>

----------------------------------------------------------------------------
(* Bounds of the model *)

MaxLen == 5

StatVals == {1, 2, 10}

PercentileArgs == 0..100

TrimArgs == {0, 10, 25, 40, 49, 50, 75}

----------------------------------------------------------------------------
(* Helpers *)

SeqsUpTo(S, n) == UNION {[1..k -> S] : k \in 0..n}

Min2(a, b) == IF a < b THEN a ELSE b

Max2(a, b) == IF a > b THEN a ELSE b

\* math.Ceil(a / b) for a >= 0, b > 0
CeilDiv(a, b) == (a + b - 1) \div b

\* the sum of s[lo..hi], by halves
RECURSIVE SumRange(_, _, _)
SumRange(s, lo, hi) ==
    IF lo > hi THEN 0
    ELSE IF lo = hi THEN s[lo]
    ELSE LET mid == (lo + hi) \div 2
         IN  SumRange(s, lo, mid) + SumRange(s, mid + 1, hi)

SumSeq(s) == SumRange(s, 1, Len(s))

\* sort.Ints
SortInts(s) == SortSeq(s, LAMBDA a, b : a < b)

Count(s, v) == Cardinality({i \in DOMAIN s : s[i] = v})

----------------------------------------------------------------------------
(* Statistics toolkit *)

\* the index selected by calculatePercentile (0-based, as in the source)
percentileIndexFloor(n, percentile) ==
    LET index == (n * percentile) \div 100 - 1
    IN  IF index < 0 THEN 0 ELSE IF index >= n THEN n - 1 ELSE index

percentileIndex(n, percentile) ==
    LET index == CeilDiv(n * percentile, 100) - 1
    IN  IF index < 0 THEN 0 ELSE IF index >= n THEN n - 1 ELSE index

\* the value calculatePercentile returns
calculatePercentile(vals, percentile) ==
    IF Len(vals) = 0 THEN 0
    ELSE SortInts(vals)[percentileIndex(Len(vals), percentile) + 1]

\* what calculatePercentile leaves in the slice it was handed: sort.Ints(values)
\* sorts the caller's backing array in place
calculatePercentileSlice(vals) == SortInts(vals)

removeOutliersExclusive(vals) ==
    IF Len(vals) < 4 THEN vals
    ELSE LET sorted == SortInts(vals)
             q1 == calculatePercentile(sorted, 25)
             q3 == calculatePercentile(sorted, 75)
             iqr == q3 - q1
             lowerBound == q1 - (3 * iqr) \div 2
             upperBound == q3 + (3 * iqr) \div 2
         IN  SelectSeq(vals, LAMBDA v : v > lowerBound /\ v < upperBound)

\* removeOutliers: values within [q1 - int(1.5*iqr), q3 + int(1.5*iqr)], original order
removeOutliers(vals) ==
    IF Len(vals) < 4 THEN vals
    ELSE LET sorted == SortInts(vals)
             q1 == calculatePercentile(sorted, 25)
             q3 == calculatePercentile(sorted, 75)
             iqr == q3 - q1
             lowerBound == q1 - (3 * iqr) \div 2
             upperBound == q3 + (3 * iqr) \div 2
         IN  SelectSeq(vals, LAMBDA v : v >= lowerBound /\ v <= upperBound)

CalculateMedianTokens(tokens) ==
    IF Len(tokens) = 0 THEN 0
    ELSE LET sorted == SortInts(tokens)
             n == Len(sorted)
         IN  IF n % 2 = 0
             THEN (sorted[n \div 2] + sorted[n \div 2 + 1]) \div 2
             ELSE sorted[n \div 2 + 1]

CalculateTrimmedMean(tokens, trimPercent) ==
    IF Len(tokens) = 0 THEN 0
    ELSE LET sorted == SortInts(tokens)
             n == Len(sorted)
             t0 == (n * trimPercent) \div 100
             trimCount == IF t0 = 0 /\ n > 2 THEN 1 ELSE t0
         IN  IF trimCount * 2 >= n
             THEN sorted[n \div 2 + 1]
             ELSE LET trimmed == SubSeq(sorted, trimCount + 1, n - trimCount)
                  IN  SumSeq(trimmed) \div Len(trimmed)

\* CalculateMode walks a Go map, whose iteration order is unspecified: the first
\* value met with the maximal count wins, so any value of maximal count may
\* be returned
CalculateModeOutcomes(tokens) ==
    IF Len(tokens) = 0 THEN {0}
    ELSE LET vs == {tokens[i] : i \in DOMAIN tokens}
         IN  {v \in vs : \A w \in vs : Count(tokens, w) <= Count(tokens, v)}

NoCall == [fn |-> "none", arg |-> <<>>, p |-> 0, ret |-> 0, out |-> <<>>]

NoEst == [fn |-> "none"]

NoRate == [fn |-> "none"]

NoSession == [fn |-> "none"]

NoStatus == [fn |-> "none"]

NoMonitor == [pc |-> "none"]

CallPercentile ==
    \E p \in PercentileArgs :
        /\ call' = [fn |-> "calculatePercentile", arg |-> values, p |-> p,
                    ret |-> calculatePercentile(values, p), out |-> <<>>]
        /\ values' = IF Len(values) = 0 THEN values ELSE calculatePercentileSlice(values)
        /\ UNCHANGED <<blocks, plan, est, now, rate, tokenLimit, session, clock, status, monitor>>

CallRemoveOutliers ==
    /\ call' = [fn |-> "removeOutliers", arg |-> values, p |-> 0,
                ret |-> 0, out |-> removeOutliers(values)]
    /\ UNCHANGED <<values, blocks, plan, est, now, rate, tokenLimit, session, clock, status, monitor>>

CallMedian ==
    /\ call' = [fn |-> "CalculateMedianTokens", arg |-> values, p |-> 0,
                ret |-> CalculateMedianTokens(values), out |-> <<>>]
    /\ UNCHANGED <<values, blocks, plan, est, now, rate, tokenLimit, session, clock, status, monitor>>

CallTrimmedMean ==
    \E t \in TrimArgs :
        /\ call' = [fn |-> "CalculateTrimmedMean", arg |-> values, p |-> t,
                    ret |-> CalculateTrimmedMean(values, t), out |-> <<>>]
        /\ UNCHANGED <<values, blocks, plan, est, now, rate, tokenLimit, session, clock, status, monitor>>

CallMode ==
    \E m \in CalculateModeOutcomes(values) :
        /\ call' = [fn |-> "CalculateMode", arg |-> values, p |-> 0,
                    ret |-> m, out |-> <<>>]
        /\ UNCHANGED <<values, blocks, plan, est, now, rate, tokenLimit, session, clock, status, monitor>>

InitStats ==
    /\ values \in SeqsUpTo(StatVals, MaxLen)
    /\ call = NoCall
    /\ blocks = <<>>
    /\ plan = "pro"
    /\ est = NoEst
    /\ now = 0
    /\ rate = NoRate
    /\ tokenLimit = 0
    /\ session = NoSession
    /\ clock = 0
    /\ status = NoStatus
    /\ monitor = NoMonitor

NextStats ==
    \/ CallPercentile
    \/ CallRemoveOutliers
    \/ CallMedian
    \/ CallTrimmedMean
    \/ CallMode

SpecStats == InitStats /\ [][NextStats]_vars

----------------------------------------------------------------------------
(* Blocks *)

\* ActualEndTime "" or unparsable, StartTime unparsable
NoTime == -1

Blk(t, e, a, g, s, x) ==
    [TotalTokens |-> t, Entries |-> e, IsActive |-> a, IsGap |-> g,
     StartTime |-> s, ActualEndTime |-> x]

----------------------------------------------------------------------------
(* Token limit estimator *)

ProPlanMessages == 45
Max5PlanMessages == 225
Max20PlanMessages == 900
DefaultTokensPerMsg == 150
MinHistoricalSessions == 5
MinCleanedSessions == 3
HistoricalPercentile == 90
FallbackPercentile == 85
RecentSessionsCount == 10
Max20DetectionThreshold == 100000
Max5DetectionThreshold == 25000

\* the weights, in tenths
WeightSmallSample == 3
WeightMediumSample == 5
WeightLargeSample == 8
WeightHighVariance == 4
WeightMediumVariance == 6

\* baseLimits[plan].Messages, and whether the key exists
baseLimitsHas(p) == p \in {"pro", "max5", "max20"}

baseLimitsMessages(p) ==
    CASE p = "pro" -> ProPlanMessages
      [] p = "max5" -> Max5PlanMessages
      [] p = "max20" -> Max20PlanMessages

\* the filter shared by estimateFromHistory and calculateDynamicWeight
isSampleKeepGap(b) == ~b.IsActive /\ b.TotalTokens > 0

isSample(b) == ~b.IsGap /\ ~b.IsActive /\ b.TotalTokens > 0

sessionMaxTokens(bs) ==
    LET q == SelectSeq(bs, isSample)
    IN  [i \in 1..Len(q) |-> q[i].TotalTokens]

estimateFromHistoryMin4(bs) ==
    LET s == sessionMaxTokens(bs)
    IN  IF Len(s) < MinHistoricalSessions - 1 THEN 0
        ELSE LET cleaned == removeOutliers(s)
             IN  IF Len(cleaned) < MinCleanedSessions
                 THEN calculatePercentile(s, FallbackPercentile)
                 ELSE calculatePercentile(cleaned, HistoricalPercentile)

estimateFromHistory(bs) ==
    LET s == sessionMaxTokens(bs)
    IN  IF Len(s) < MinHistoricalSessions THEN 0
        ELSE LET cleaned == removeOutliers(s)
             IN  IF Len(cleaned) < MinCleanedSessions
                 THEN calculatePercentile(s, FallbackPercentile)
                 ELSE calculatePercentile(cleaned, HistoricalPercentile)

\* the loop of detectPlanFromHistory: maxTokens starts at 0 and is raised by every
\* non-gap, non-active block above it
MaxHistoricalTokens(bs) ==
    LET S == {bs[i].TotalTokens : i \in {j \in DOMAIN bs : ~bs[j].IsGap /\ ~bs[j].IsActive}}
            \cup {0}
    IN  CHOOSE m \in S : \A x \in S : x <= m

detectPlanFromHistory(bs) ==
    LET maxTokens == MaxHistoricalTokens(bs)
    IN  IF maxTokens > Max20DetectionThreshold THEN "max20"
        ELSE IF maxTokens > Max5DetectionThreshold THEN "max5"
        ELSE "pro"

isRecentSessionWithActive(b) == ~b.IsGap /\ b.Entries > 0

isRecentSession(b) == ~b.IsGap /\ ~b.IsActive /\ b.Entries > 0

\* the blocks the loop of calculateAvgTokensPerMessage adds up: walking from the
\* last block backward, the first RecentSessionsCount that pass the filter
RecentSessions(bs) ==
    LET q == SelectSeq(bs, isRecentSession)
    IN  SubSeq(q, Max2(1, Len(q) - RecentSessionsCount + 1), Len(q))

calculateAvgTokensPerMessage(bs) ==
    LET r == RecentSessions(bs)
        totalTokens == SumSeq([i \in DOMAIN r |-> r[i].TotalTokens])
        totalEntries == SumSeq([i \in DOMAIN r |-> r[i].Entries])
    IN  IF totalEntries = 0 THEN 0 ELSE totalTokens \div totalEntries

calculateBaseLimitNoDefault(p, bs) ==
    LET p1 == IF p = "auto" THEN detectPlanFromHistory(bs) ELSE p
        p2 == IF baseLimitsHas(p1) THEN p1 ELSE "pro"
    IN  baseLimitsMessages(p2) * calculateAvgTokensPerMessage(bs)

calculateBaseLimit(p, bs) ==
    LET p1 == IF p = "auto" THEN detectPlanFromHistory(bs) ELSE p
        p2 == IF baseLimitsHas(p1) THEN p1 ELSE "pro"
        avgTokensPerMsg == calculateAvgTokensPerMessage(bs)
    IN  IF avgTokensPerMsg > 0
        THEN baseLimitsMessages(p2) * avgTokensPerMsg
        ELSE baseLimitsMessages(p2) * DefaultTokensPerMsg

SumSqDiff(s, m) == SumSeq([i \in DOMAIN s |-> (s[i] - m) * (s[i] - m)])

\* the mean calculateDynamicWeight divides the standard deviation by
sessionMean(sessionTokens) == SumSeq(sessionTokens) \div Len(sessionTokens)

\* calculateDynamicWeight, in tenths.  mean is an int (mean /= len truncates);
\* cv = sqrt(sum/n) / mean, so cv > 1/2 iff 4*sum > n*mean^2 and
\* cv > 3/10 iff 100*sum > 9*n*mean^2
calculateDynamicWeight(bs) ==
    LET sessionTokens == sessionMaxTokens(bs)
        sampleSize == Len(sessionTokens)
    IN  IF sampleSize < 10 THEN WeightSmallSample
        ELSE IF sampleSize < 20 THEN WeightMediumSample
        ELSE LET mean == sessionMean(sessionTokens)
                 sq == SumSqDiff(sessionTokens, mean)
             IN  IF 4 * sq > sampleSize * mean * mean THEN WeightHighVariance
                 ELSE IF 100 * sq > 9 * sampleSize * mean * mean
                      THEN WeightMediumVariance
                 ELSE WeightLargeSample

\* int(float64(dynamicLimit)*weight + float64(baseLimit)*(1-weight)): the
\* truncation of the float64 sum.  With weight 0.5 every operation is exact; with
\* the other weights the products are rounded, and a sum whose exact value is
\* an integer may come out just below it (3 and 3 at weight 0.3 give 2)
blendRounded(dynamicLimit, baseLimit, w) ==
    LET s == dynamicLimit * w + baseLimit * (10 - w)
    IN  {(s + 5) \div 10}

blend(dynamicLimit, baseLimit, w) ==
    LET s == dynamicLimit * w + baseLimit * (10 - w)
    IN  IF s % 10 = 0 /\ w # 5 THEN {s \div 10, s \div 10 - 1} ELSE {s \div 10}

\* the values EstimateLimit can return
EstimateLimit(p, bs) ==
    LET dynamicLimit == estimateFromHistory(bs)
    IN  IF dynamicLimit > 0
        THEN LET baseLimit == calculateBaseLimit(p, bs)
             IN  IF baseLimit > 0
                 THEN blend(dynamicLimit, baseLimit, calculateDynamicWeight(bs))
                 ELSE {dynamicLimit}
        ELSE {calculateBaseLimit(p, bs)}

GetActualPlan(p, bs) == IF p = "auto" THEN detectPlanFromHistory(bs) ELSE p

----------------------------------------------------------------------------
(* Burn rate calculator.  A float64 is kept as the exact rational <<n, d>>, d > 0 *)

MinutesPerHour == 60

RECURSIVE GCD(_, _)
GCD(a, b) == IF b = 0 THEN a ELSE GCD(b, a % b)

Rat(n, d) == LET g == GCD(IF n < 0 THEN -n ELSE n, d) IN <<n \div g, d \div g>>

RatZero == <<0, 1>>

RatAdd(x, y) ==
    LET l == (x[2] \div GCD(x[2], y[2])) * y[2]
    IN  Rat(x[1] * (l \div x[2]) + y[1] * (l \div y[2]), l)

RatLess(x, y) == x[1] * y[2] < y[1] * x[2]

getBlockEndTime(block, currentTime) ==
    IF block.IsActive THEN currentTime
    ELSE IF block.ActualEndTime # NoTime THEN block.ActualEndTime
    ELSE currentTime

calculateBlockTokensInWindowWhole(block, windowEnd, windowStart) ==
    IF block.StartTime = NoTime THEN RatZero
    ELSE IF getBlockEndTime(block, windowEnd) > block.StartTime
         THEN Rat(block.TotalTokens, 1)
         ELSE RatZero

calculateBlockTokensInWindowByWindow(block, windowEnd, windowStart) ==
    IF block.StartTime = NoTime THEN RatZero
    ELSE LET blockEnd == getBlockEndTime(block, windowEnd)
             overlapStart == Max2(block.StartTime, windowStart)
             overlapEnd == Min2(blockEnd, windowEnd)
         IN  IF overlapEnd <= overlapStart \/ blockEnd <= block.StartTime THEN RatZero
             ELSE Rat(block.TotalTokens * (overlapEnd - overlapStart),
                      windowEnd - windowStart)

calculateBlockTokensInWindowUnchecked(block, windowEnd, windowStart) ==
    IF block.StartTime = NoTime THEN RatZero
    ELSE LET blockEnd == getBlockEndTime(block, windowEnd)
             overlapStart == Max2(block.StartTime, windowStart)
             overlapEnd == Min2(blockEnd, windowEnd)
             totalDuration == blockEnd - block.StartTime
         IN  IF blockEnd < windowStart \/ totalDuration <= 0 THEN RatZero
             ELSE LET n == block.TotalTokens * (overlapEnd - overlapStart)
                  IN  IF n < 0 THEN <<-Rat(-n, totalDuration)[1], Rat(-n, totalDuration)[2]>>
                      ELSE Rat(n, totalDuration)

calculateBlockTokensInWindow(block, windowEnd, windowStart) ==
    IF block.StartTime = NoTime THEN RatZero
    ELSE LET blockStart == block.StartTime
             blockEnd == getBlockEndTime(block, windowEnd)
         IN  IF blockEnd < windowStart THEN RatZero
             ELSE LET overlapStart == Max2(blockStart, windowStart)
                      overlapEnd == Min2(blockEnd, windowEnd)
                  IN  IF overlapEnd <= overlapStart THEN RatZero
                      ELSE LET totalDuration == blockEnd - blockStart
                               overlapDuration == overlapEnd - overlapStart
                           IN  IF totalDuration > 0
                               THEN LET f == Rat(overlapDuration, totalDuration)
                                    IN  Rat(block.TotalTokens * f[1], f[2])
                               ELSE RatZero

\* the sum of the rationals s[lo..hi], by halves
RECURSIVE RatSumRange(_, _, _)
RatSumRange(s, lo, hi) ==
    IF lo > hi THEN RatZero
    ELSE IF lo = hi THEN s[lo]
    ELSE LET mid == (lo + hi) \div 2
         IN  RatAdd(RatSumRange(s, lo, mid), RatSumRange(s, mid + 1, hi))

\* the tokens one block of the loop of Calculate adds to totalTokens
windowTokens(block, currentTime, windowStart) ==
    IF block.IsGap THEN RatZero
    ELSE calculateBlockTokensInWindow(block, currentTime, windowStart)

\* BurnRateCalculator.Calculate, tokens per minute
Calculate(bs, currentTime) ==
    IF Len(bs) = 0 THEN RatZero
    ELSE LET windowStart == currentTime - MinutesPerHour
             parts == [i \in DOMAIN bs |-> windowTokens(bs[i], currentTime, windowStart)]
             total == RatSumRange(parts, 1, Len(bs))
         IN  Rat(total[1], total[2] * MinutesPerHour)

----------------------------------------------------------------------------
(* The analysis pass over a short history: ccusage reports one more block,  *)
(* or a gap block appears in or disappears from the list, and the limit,    *)
(* the plan and the burn rate are computed from the list.                   *)

MaxBlocks == 5

Plans == {"pro", "max5", "max20", "auto", "team"}

\* now is minute 600; the burn rate window is [540, 600]
EstNows == {600}

EstSamples ==
    { Blk(5000, 40, FALSE, FALSE, 0, 290),
      Blk(30000, 100, FALSE, FALSE, 300, 570),
      Blk(6000, 0, FALSE, FALSE, 550, 590),
      Blk(6000, 50, TRUE, FALSE, 560, NoTime) }

EstGaps ==
    { Blk(150000, 7, FALSE, TRUE, 550, 590) }

EstKinds == EstSamples \cup EstGaps

\* EstimateLimit, GetActualPlan and Calculate on the list bs
\* est also keeps the three values EstimateLimit blends; weight 0 stands for
\* calculateDynamicWeight not having been called
Analyze(bs) ==
    /\ \E l \in EstimateLimit(plan, bs) :
           est' = [fn |-> "EstimateLimit", limit |-> l,
                   dynamic |-> estimateFromHistory(bs),
                   base |-> calculateBaseLimit(plan, bs),
                   weight |-> IF estimateFromHistory(bs) > 0
                                 /\ calculateBaseLimit(plan, bs) > 0
                              THEN calculateDynamicWeight(bs) ELSE 0,
                   actual |-> GetActualPlan(plan, bs),
                   avg |-> calculateAvgTokensPerMessage(bs)]
    /\ rate' = [fn |-> "Calculate", value |-> Calculate(bs, now)]

AnalyzeFirst ==
    /\ est = NoEst
    /\ Analyze(blocks)
    /\ UNCHANGED <<values, call, blocks, plan, now, tokenLimit, session, clock, status, monitor>>

FetchAppend ==
    \E b \in EstKinds :
        /\ est # NoEst
        /\ Len(blocks) < MaxBlocks
        /\ blocks' = Append(blocks, b)
        /\ Analyze(blocks')
        /\ UNCHANGED <<values, call, plan, now, tokenLimit, session, clock, status, monitor>>

InsertGap ==
    \E g \in EstGaps, i \in 0..Len(blocks) :
        /\ est # NoEst
        /\ Len(blocks) < MaxBlocks
        /\ blocks' = SubSeq(blocks, 1, i) \o <<g>> \o SubSeq(blocks, i + 1, Len(blocks))
        /\ Analyze(blocks')
        /\ UNCHANGED <<values, call, plan, now, tokenLimit, session, clock, status, monitor>>

RemoveGap ==
    \E i \in DOMAIN blocks :
        /\ est # NoEst
        /\ blocks[i].IsGap
        /\ blocks' = SubSeq(blocks, 1, i - 1) \o SubSeq(blocks, i + 1, Len(blocks))
        /\ Analyze(blocks')
        /\ UNCHANGED <<values, call, plan, now, tokenLimit, session, clock, status, monitor>>

InitEst ==
    /\ values = <<>>
    /\ call = NoCall
    /\ blocks = <<>>
    /\ plan \in Plans
    /\ est = NoEst
    /\ now \in EstNows
    /\ rate = NoRate
    /\ tokenLimit = 0
    /\ session = NoSession
    /\ clock = 0
    /\ status = NoStatus
    /\ monitor = NoMonitor

NextEst ==
    \/ AnalyzeFirst
    \/ FetchAppend
    \/ InsertGap
    \/ RemoveGap

SpecEst == InitEst /\ [][NextEst]_vars

----------------------------------------------------------------------------
(* The analysis pass over a long history: ccusage reports runs of 5 or 10   *)
(* blocks of one kind, up to 5 * MaxRunUnits blocks.                        *)

MaxRunUnits == 4

RunLens == {5, 10}

HistKinds ==
    { Blk(1, 1, FALSE, FALSE, 0, 290),
      Blk(2, 1, FALSE, FALSE, 0, 290),
      Blk(100, 1, FALSE, FALSE, 300, 570),
      Blk(303, 3, FALSE, FALSE, 300, 570),
      Blk(500, 2, FALSE, TRUE, 550, 590) }

Repeat(b, n) == [i \in 1..n |-> b]

FetchRun ==
    \E b \in HistKinds, n \in RunLens :
        /\ est # NoEst
        /\ Len(blocks) + n <= 5 * MaxRunUnits
        /\ blocks' = blocks \o Repeat(b, n)
        /\ Analyze(blocks')
        /\ UNCHANGED <<values, call, plan, now, tokenLimit, session, clock, status, monitor>>

NextHist ==
    \/ AnalyzeFirst
    \/ FetchRun

SpecHist == InitEst /\ [][NextHist]_vars

----------------------------------------------------------------------------
(* The burn rate of short block lists with every placement of a block       *)
(* against the trailing hour [540, 600].                                    *)

MaxRateBlocks == 2

RateNows == {600}

RateStarts == {510, 540, 570, 600, 630, NoTime}

RateEnds == {540, 570, 600, 630, 660, NoTime}

RateKinds ==
    {Blk(600, 10, FALSE, FALSE, s, e) : s \in RateStarts, e \in RateEnds}
    \cup {Blk(600, 10, TRUE, FALSE, s, NoTime) : s \in RateStarts}
    \cup { Blk(600, 10, TRUE, FALSE, 570, 590),
           Blk(7, 1, FALSE, FALSE, 510, 570),
           Blk(0, 0, FALSE, FALSE, 570, 600),
           Blk(900, 5, FALSE, TRUE, 570, 600),
           Blk(900, 5, TRUE, TRUE, 510, NoTime) }

FetchRate ==
    \E b \in RateKinds :
        /\ Len(blocks) < MaxRateBlocks
        /\ blocks' = Append(blocks, b)
        /\ rate' = [fn |-> "Calculate", value |-> Calculate(blocks', now)]
        /\ UNCHANGED <<values, call, plan, est, now, tokenLimit, session, clock, status, monitor>>

\* the pass over the list as it is, an empty list included
RateFirst ==
    /\ rate = NoRate
    /\ rate' = [fn |-> "Calculate", value |-> Calculate(blocks, now)]
    /\ UNCHANGED <<values, call, blocks, plan, est, now, tokenLimit, session, clock, status, monitor>>

InitRate ==
    /\ values = <<>>
    /\ call = NoCall
    /\ blocks = <<>>
    /\ plan = "pro"
    /\ est = NoEst
    /\ now \in RateNows
    /\ rate = NoRate
    /\ tokenLimit = 0
    /\ session = NoSession
    /\ clock = 0
    /\ status = NoStatus
    /\ monitor = NoMonitor

NextRate ==
    \/ RateFirst
    \/ FetchRate

SpecRate == InitRate /\ [][NextRate]_vars

----------------------------------------------------------------------------
(* Session *)

SessionDurationMinutes == 300

\* time.Time{}, what NewSession keeps when StartTime does not parse: the first
\* minute of year 1, some 2025 years before the minutes the model counts
ZeroTime == -1065000000

\* the largest whole number of minutes a time.Duration (int64 nanoseconds) holds,
\* (2^63 - 1) \div (60 * 10^9), and 2^64 nanoseconds in minutes, rounded
MaxDurationMinutes == 153722867
DurationWrapMinutes == 307445735

\* findActiveBlock: the index of the first block with IsActive, 0 for nil
findActiveBlock(bs) ==
    LET S == {i \in DOMAIN bs : bs[i].IsActive}
    IN  IF S = {} THEN 0 ELSE CHOOSE i \in S : \A j \in S : i <= j

RatPos(x) == x[1] > 0

\* Percentage is the float64 used / limit * 100, kept as a rational
calculateTokenMetricsUnguarded(used, limit) ==
    [Used |-> used, Limit |-> limit,
     Percentage |-> IF limit = 0 THEN <<1, 0>> ELSE Rat(used * 100, limit),
     Remaining |-> limit - used]

calculateTokenMetrics(used, limit) ==
    [Used |-> used,
     Limit |-> limit,
     Percentage |-> IF limit > 0 THEN Rat(used * 100, limit) ELSE RatZero,
     Remaining |-> limit - used]

\* (elapsedMinutes / SessionDurationMinutes) * 100, clamped to [0, 100]
progressPercentage(elapsedMinutes) ==
    IF elapsedMinutes < 0 THEN RatZero
    ELSE IF elapsedMinutes > SessionDurationMinutes THEN <<100, 1>>
    ELSE Rat(elapsedMinutes * 100, SessionDurationMinutes)

NewSessionBlockEnd(block, currentTime) ==
    LET startTime == IF block.StartTime = NoTime THEN ZeroTime ELSE block.StartTime
        endTime == getBlockEndTime(block, currentTime)
    IN  [StartTime |-> startTime,
         EndTime |-> endTime,
         MinutesRemaining |-> Max2(0, endTime - currentTime),
         ProgressPercentage |-> progressPercentage(currentTime - startTime)]

\* the times of NewSession and its calculateTimeMetrics
sessionTimes(block, currentTime) ==
    LET startTime == IF block.StartTime = NoTime THEN ZeroTime ELSE block.StartTime
        endTime == startTime + SessionDurationMinutes
        elapsedMinutes == currentTime - startTime
        remainingMinutes == endTime - currentTime
    IN  [StartTime |-> startTime,
         EndTime |-> endTime,
         MinutesRemaining |-> IF remainingMinutes < 0 THEN 0 ELSE remainingMinutes,
         ProgressPercentage |-> progressPercentage(elapsedMinutes)]

NewSession(block, allBlocks, limit, currentTime) ==
    LET t == sessionTimes(block, currentTime)
        m == calculateTokenMetrics(block.TotalTokens, limit)
    IN  [fn |-> "NewSession",
         StartTime |-> t.StartTime,
         EndTime |-> t.EndTime,
         BurnRate |-> Calculate(allBlocks, currentTime),
         Used |-> m.Used,
         Limit |-> m.Limit,
         Percentage |-> m.Percentage,
         Remaining |-> m.Remaining,
         MinutesRemaining |-> t.MinutesRemaining,
         ProgressPercentage |-> t.ProgressPercentage,
         at |-> currentTime]

\* time.Duration(minutesToDepletion) * time.Minute: the int64 product wraps
durationMinutes(m) ==
    IF m > MaxDurationMinutes
    THEN ((m + MaxDurationMinutes) % DurationWrapMinutes) - MaxDurationMinutes
    ELSE m

\* the times GetPredictedEndTime can return.  minutesToDepletion is the float64
\* Remaining / BurnRate, truncated; a quotient whose exact value is an integer
\* may come out just below it
GetPredictedEndTime(s, currentTime) ==
    IF RatPos(s.BurnRate) /\ s.Remaining > 0
    THEN LET n == s.Remaining * s.BurnRate[2]
             q == n \div s.BurnRate[1]
             ms == IF n % s.BurnRate[1] = 0 /\ q > 0 THEN {q, q - 1} ELSE {q}
         IN  {currentTime + durationMinutes(m) : m \in ms}
    ELSE {s.EndTime}

GetStatusNoLimit(s, predictedEnd) ==
    IF predictedEnd < s.EndTime THEN "WARNING" ELSE "OK"

GetStatusLateWarning(s, predictedEnd) ==
    IF s.Used > s.Limit THEN "LIMIT EXCEEDED"
    ELSE IF predictedEnd <= s.EndTime THEN "WARNING"
    ELSE "OK"

GetStatusAtLimit(s, predictedEnd) ==
    IF s.Used >= s.Limit THEN "LIMIT EXCEEDED"
    ELSE IF predictedEnd < s.EndTime THEN "WARNING"
    ELSE "OK"

\* GetStatus, given the value GetPredictedEndTime(time.Now()) returns
GetStatus(s, predictedEnd) ==
    IF s.Used > s.Limit THEN "LIMIT EXCEEDED"
    ELSE IF predictedEnd < s.EndTime THEN "WARNING"
    ELSE "OK"

MaxTick == 2

SessionNows == {600}

SessionLimits == {0, 2395, 7000, 10000}

SessionActive ==
    {Blk(t, 10, TRUE, FALSE, s, NoTime) :
        t \in {0, 1, 1000, 3000, 7000, 7500}, s \in {300, 400, 540, 599, NoTime}}
    \cup {Blk(3000, 10, TRUE, FALSE, s, 590) : s \in {200, 450, 630}}

SessionHistory ==
    { <<>>,
      <<Blk(600, 10, FALSE, FALSE, 570, 600)>>,
      <<Blk(7, 1, FALSE, FALSE, 510, 570)>>,
      <<Blk(1, 1, FALSE, FALSE, 241, 541)>> }

CreateSession ==
    /\ session = NoSession
    /\ findActiveBlock(blocks) # 0
    /\ session' = NewSession(blocks[findActiveBlock(blocks)], blocks, tokenLimit, now)
    /\ UNCHANGED <<values, call, blocks, plan, est, now, rate, tokenLimit, clock, status, monitor>>

\* the wall clock moves on between the pass and a later time.Now()
Tick ==
    /\ clock < now + MaxTick
    /\ clock' = clock + 1
    /\ UNCHANGED <<values, call, blocks, plan, est, now, rate, tokenLimit, session, status, monitor>>

ReadStatus ==
    /\ session # NoSession
    /\ \E pe \in GetPredictedEndTime(session, clock) :
           status' = [fn |-> "GetStatus", value |-> GetStatus(session, pe),
                      at |-> clock, predictedEnd |-> pe]
    /\ UNCHANGED <<values, call, blocks, plan, est, now, rate, tokenLimit, session, clock, monitor>>

\* GetStatusColor, given the value its own GetPredictedEndTime(time.Now()) returns
GetStatusColor(s, predictedEnd) ==
    CASE GetStatus(s, predictedEnd) = "LIMIT EXCEEDED" -> "red"
      [] GetStatus(s, predictedEnd) = "WARNING" -> "yellow"
      [] OTHER -> "green"

\* renderStatusBar: session.GetStatus() gives the text and session.GetStatusColor()
\* the colour; each calls time.Now(), the second no earlier than the first.  The
\* float64 quotient is the same in both calls, so both add the same minutes
RenderStatusBar ==
    /\ session # NoSession
    /\ \E t1 \in clock..(now + MaxTick) :
        \E t2 \in t1..(now + MaxTick) :
        \E pe1 \in GetPredictedEndTime(session, t1), pe2 \in GetPredictedEndTime(session, t2) :
            /\ pe2 - t2 = pe1 - t1 \/ (pe1 = session.EndTime /\ pe2 = session.EndTime)
            /\ status' = [fn |-> "renderStatusBar", value |-> GetStatus(session, pe1),
                          color |-> GetStatusColor(session, pe2),
                          at |-> t1, colorAt |-> t2, predictedEnd |-> pe1]
            /\ clock' = t2
            /\ UNCHANGED <<values, call, blocks, plan, est, now, rate, tokenLimit, session,
                           monitor>>

InitSession ==
    /\ values = <<>>
    /\ call = NoCall
    /\ \E h \in SessionHistory, a \in SessionActive : blocks = h \o <<a>>
    /\ plan = "pro"
    /\ est = NoEst
    /\ now \in SessionNows
    /\ rate = NoRate
    /\ tokenLimit \in SessionLimits
    /\ session = NoSession
    /\ clock = now
    /\ status = NoStatus
    /\ monitor = NoMonitor

NextSession ==
    \/ CreateSession
    \/ Tick
    \/ ReadStatus
    \/ RenderStatusBar

SpecSession == InitSession /\ [][NextSession]_vars

----------------------------------------------------------------------------
(* Accuracy report *)

AccuracyWarningThreshold == 10

RatAbs(x) == IF x[1] < 0 THEN <<-x[1], x[2]>> ELSE x

\* the deviation in percent, for estimated >= 0
calculateDeviation(actual, estimated) ==
    IF estimated = 0 THEN RatZero
    ELSE Rat((actual - estimated) * 100, estimated)

formatAccuracyWarningAtThreshold(deviation, isAverage) ==
    IF ~RatLess(RatAbs(deviation), <<AccuracyWarningThreshold, 1>>)
    THEN IF isAverage THEN "Warning: avg deviation" ELSE "Warning: deviation"
    ELSE ""

\* the message, without the number it prints
formatAccuracyWarning(deviation, isAverage) ==
    IF RatLess(<<AccuracyWarningThreshold, 1>>, RatAbs(deviation))
    THEN IF isAverage THEN "Warning: avg deviation" ELSE "Warning: deviation"
    ELSE ""

GetAccuracyReport(p, actualTokens, estimatedLimit) ==
    IF estimatedLimit = 0 THEN ""
    ELSE formatAccuracyWarning(calculateDeviation(actualTokens, estimatedLimit), FALSE)

AccuracyEstimates == {0, 10, 7000, 35000}

AccuracyActuals ==
    {0, 8, 9, 10, 11, 12, 5000, 6800, 8000, 30000, 31499, 31500, 31501, 38499, 38500, 38501}
    \cup (6295..6305) \cup (7695..7705)

CallAccuracyReport ==
    \E a \in AccuracyActuals, e \in AccuracyEstimates :
        /\ call' = [fn |-> "GetAccuracyReport", arg |-> <<a, e>>, p |-> 0, ret |-> 0,
                    out |-> <<>>, report |-> GetAccuracyReport(plan, a, e)]
        /\ UNCHANGED <<values, blocks, plan, est, now, rate, tokenLimit, session, clock, status,
                       monitor>>

InitAccuracy ==
    /\ values = <<>>
    /\ call = NoCall
    /\ blocks = <<>>
    /\ plan \in Plans
    /\ est = NoEst
    /\ now = 0
    /\ rate = NoRate
    /\ tokenLimit = 0
    /\ session = NoSession
    /\ clock = 0
    /\ status = NoStatus
    /\ monitor = NoMonitor

NextAccuracy == CallAccuracyReport

SpecAccuracy == InitAccuracy /\ [][NextAccuracy]_vars

----------------------------------------------------------------------------
(* The monitor loop: runMonitor takes the initial token limit, then runs a  *)
(* cycle (updateDisplay) and sleeps for the update interval, forever.  The  *)
(* update interval of 3 seconds is below the model's minute, so now stays.  *)
(* The signal handler may end the process at any point.                     *)

ProTokenLimit == 7000
Max5TokenLimit == 35000
Max20TokenLimit == 140000
AutoSwitchTokens == 7000

GetTokenLimitNoFallback(p) ==
    CASE p = "pro" -> ProTokenLimit
      [] p = "max5" -> Max5TokenLimit
      [] p = "max20" -> Max20TokenLimit
      [] OTHER -> 0

\* Config.GetTokenLimit
GetTokenLimit(p) ==
    CASE p = "pro" -> ProTokenLimit
      [] p = "max5" -> Max5TokenLimit
      [] p = "max20" -> Max20TokenLimit
      [] OTHER -> ProTokenLimit

ShouldAutoSwitch(currentPlan, tokensUsed) ==
    currentPlan = "pro" /\ tokensUsed > AutoSwitchTokens

MonitorNows == {600}

\* the --plan flag is not validated: any string gets through
MonitorPlans == Plans \cup {""}

\* what ccusage may report: a history, then perhaps the active block
MonitorHistories ==
    { <<>>,
      [i \in 1..5 |-> Blk(5000, 40, FALSE, FALSE, 0, 290)],
      <<Blk(20000, 100, FALSE, FALSE, 0, 290)>>,
      <<Blk(150000, 500, FALSE, FALSE, 0, 290)>> }

MonitorUsed == {3000, 6900, 7001, 40000}

MonitorActive(t) == Blk(t, 10, TRUE, FALSE, 540, NoTime)

\* the monitor after a cycle that returned an error; before is the token limit
\* the cycle started with, previous what the cycle before it did
cycleFailedExit(message) ==
    [pc |-> "failed", result |-> "error", message |-> message, attempted |-> FALSE,
     before |-> tokenLimit, previous |-> monitor.result, initial |-> monitor.initial]

cycleFailed(message) ==
    [pc |-> "sleep", result |-> "error", message |-> message, attempted |-> FALSE,
     before |-> tokenLimit, previous |-> monitor.result, initial |-> monitor.initial]

\* the monitor after a cycle that rendered
cycleRendered(attempted) ==
    [pc |-> "sleep", result |-> "render", message |-> "", attempted |-> attempted,
     before |-> tokenLimit, previous |-> monitor.result, initial |-> monitor.initial]

\* getInitialTokenLimit with usage data
StartFetched ==
    \E h \in MonitorHistories, t \in MonitorUsed :
      \E l \in EstimateLimit(plan, h \o <<MonitorActive(t)>>) :
        /\ monitor = NoMonitor
        /\ blocks' = h \o <<MonitorActive(t)>>
        /\ est' = [fn |-> "EstimateLimit", limit |-> l,
                   dynamic |-> estimateFromHistory(blocks'),
                   base |-> calculateBaseLimit(plan, blocks'),
                   weight |-> IF estimateFromHistory(blocks') > 0
                                 /\ calculateBaseLimit(plan, blocks') > 0
                              THEN calculateDynamicWeight(blocks') ELSE 0,
                   actual |-> GetActualPlan(plan, blocks')]
        /\ tokenLimit' = l
        /\ monitor' = [pc |-> "loop", result |-> "none", message |-> "",
                       attempted |-> FALSE, before |-> l, previous |-> "none",
                       initial |-> "EstimateLimit"]
        /\ UNCHANGED <<values, call, plan, now, rate, session, clock, status>>

\* getInitialTokenLimit without usage data
StartFailed ==
    /\ monitor = NoMonitor
    /\ tokenLimit' = GetTokenLimit(plan)
    /\ monitor' = [pc |-> "loop", result |-> "none", message |-> "",
                   attempted |-> FALSE, before |-> tokenLimit', previous |-> "none",
                   initial |-> "GetTokenLimit"]
    /\ UNCHANGED <<values, call, blocks, plan, est, now, rate, session, clock, status>>

\* updateDisplay: fetchUsageData returns nil
CycleFetchFailed ==
    /\ monitor.pc = "loop"
    /\ monitor' = cycleFailed("Failed to get usage data")
    /\ UNCHANGED <<values, call, blocks, plan, est, now, rate, tokenLimit, session, clock,
                   status>>

\* updateDisplay: the data has no active block
CycleNoActive ==
    \E h \in MonitorHistories :
        /\ monitor.pc = "loop"
        /\ findActiveBlock(h) = 0
        /\ blocks' = h
        /\ monitor' = cycleFailed("No active session found")
        /\ UNCHANGED <<values, call, plan, est, now, rate, tokenLimit, session, clock, status>>

autoSwitchedAlways(s, newLimit) ==
    LET m == calculateTokenMetrics(s.Used, newLimit)
    IN  [s EXCEPT !.Limit = m.Limit, !.Percentage = m.Percentage, !.Remaining = m.Remaining]

\* the session after the auto-switch step of updateDisplay, for the value
\* newLimit that EstimateLimit("auto", ...) returns
autoSwitched(s, newLimit) ==
    IF newLimit > s.Limit
    THEN LET m == calculateTokenMetrics(s.Used, newLimit)
         IN  [s EXCEPT !.Limit = m.Limit, !.Percentage = m.Percentage,
                       !.Remaining = m.Remaining]
    ELSE s

\* renderNotifications: whether the note "Auto-switched to auto plan" is printed
renderNotifications(s, p) == s.Used > AutoSwitchTokens /\ p = "pro" /\ s.Limit > AutoSwitchTokens

\* updateDisplay with an active block: NewSession, the auto-switch, Render
CycleRender ==
    \E h \in MonitorHistories, t \in MonitorUsed \cup {tokenLimit} :
        LET data == h \o <<MonitorActive(t)>>
            active == data[findActiveBlock(data)]
            s == NewSession(active, data, tokenLimit, now)
            attempt == ShouldAutoSwitch(plan, s.Used)
        IN  /\ monitor.pc = "loop"
            /\ blocks' = data
            /\ \E newLimit \in (IF attempt THEN EstimateLimit("auto", data) ELSE {tokenLimit}) :
                   /\ session' = autoSwitched(s, newLimit)
                   /\ tokenLimit' = session'.Limit
            /\ \E pe \in GetPredictedEndTime(session', now) :
                   status' = [fn |-> "GetStatus", value |-> GetStatus(session', pe),
                              at |-> now, predictedEnd |-> pe,
                              note |-> renderNotifications(session', plan)]
            /\ monitor' = cycleRendered(attempt)
            /\ UNCHANGED <<values, call, plan, est, now, rate, clock>>

\* time.Sleep(config.UpdateInterval), on both paths of the loop
Sleep ==
    /\ monitor.pc = "sleep"
    /\ monitor' = [monitor EXCEPT !.pc = "loop"]
    /\ UNCHANGED <<values, call, blocks, plan, est, now, rate, tokenLimit, session, clock,
                   status>>

\* setupSignalHandler: os.Exit(0) on SIGINT or SIGTERM
Interrupt ==
    /\ monitor # NoMonitor
    /\ monitor.pc # "exit"
    /\ monitor' = [monitor EXCEPT !.pc = "exit"]
    /\ UNCHANGED <<values, call, blocks, plan, est, now, rate, tokenLimit, session, clock,
                   status>>

InitMonitor ==
    /\ values = <<>>
    /\ call = NoCall
    /\ blocks = <<>>
    /\ plan \in MonitorPlans
    /\ est = NoEst
    /\ now \in MonitorNows
    /\ rate = NoRate
    /\ tokenLimit = 0
    /\ session = NoSession
    /\ clock = now
    /\ status = NoStatus
    /\ monitor = NoMonitor

NextMonitor ==
    \/ StartFetched
    \/ StartFailed
    \/ CycleFetchFailed
    \/ CycleNoActive
    \/ CycleRender
    \/ Sleep
    \/ Interrupt

SpecMonitor == InitMonitor /\ [][NextMonitor]_vars

\* the loop is sequential: ccusage returns, and so does time.Sleep
FairSpecMonitor ==
    /\ SpecMonitor
    /\ WF_vars(CycleFetchFailed \/ CycleNoActive \/ CycleRender)
    /\ WF_vars(Sleep)

----------------------------------------------------------------------------
(* Plan detection: the analysis pass with plan auto over histories whose    *)
(* largest finished block lies at and next to the two detection thresholds. *)

MaxDetectBlocks == 3

DetectKinds ==
    { Blk(t, 100, FALSE, FALSE, 0, 290) : t \in {24999, 25000, 25001, 99999, 100000, 100001} }
    \cup { Blk(150000, 100, TRUE, FALSE, 560, NoTime),
           Blk(150000, 100, FALSE, TRUE, 300, 500) }

DetectAppend ==
    \E b \in DetectKinds :
        /\ est # NoEst
        /\ Len(blocks) < MaxDetectBlocks
        /\ blocks' = Append(blocks, b)
        /\ Analyze(blocks')
        /\ UNCHANGED <<values, call, plan, now, tokenLimit, session, clock, status, monitor>>

NextDetect ==
    \/ AnalyzeFirst
    \/ DetectAppend

SpecDetect == InitEst /\ [][NextDetect]_vars

----------------------------------------------------------------------------
(* The core on degenerate input: histories without messages, without        *)
(* tokens, without duration or without a readable start, the smallest       *)
(* history the coefficient of variation is computed for, and a limit of 0.  *)

CoreNows == {600}

CoreLimits == {0, 7000}

CoreRepeat(b, n) == [i \in 1..n |-> b]

CoreHistories ==
    { <<>>,
      <<Blk(6000, 0, FALSE, FALSE, 0, 290)>>,
      <<Blk(0, 0, FALSE, FALSE, 0, 290)>>,
      <<Blk(0, 5, FALSE, FALSE, 570, 600)>>,
      <<Blk(500, 10, FALSE, FALSE, 590, 590)>>,
      <<Blk(500, 10, FALSE, FALSE, NoTime, 590)>>,
      <<Blk(500, 10, FALSE, FALSE, 595, 580)>>,
      <<Blk(500, 10, FALSE, FALSE, 570, 600)>>,
      <<Blk(500, 10, FALSE, TRUE, 570, 600)>>,
      CoreRepeat(Blk(1, 1, FALSE, FALSE, 0, 290), 20),
      CoreRepeat(Blk(1, 0, FALSE, FALSE, 590, 590), 20),
      CoreRepeat(Blk(1, 5, FALSE, FALSE, 0, 290), 20),
      CoreRepeat(Blk(45, 45, FALSE, FALSE, 0, 290), 5),
      CoreRepeat(Blk(1, 1, FALSE, FALSE, 0, 290), 19) \o <<Blk(0, 1, FALSE, FALSE, 0, 290)>>,
      CoreRepeat(Blk(1, 1, FALSE, FALSE, 0, 290), 19) \o <<Blk(40, 3, FALSE, FALSE, 590, 590)>> }

CoreActive ==
    { Blk(0, 0, TRUE, FALSE, 600, NoTime),
      Blk(3000, 10, TRUE, FALSE, 540, NoTime),
      Blk(10, 1, TRUE, FALSE, NoTime, NoTime),
      Blk(7000, 0, TRUE, FALSE, 599, NoTime) }

\* ccusage reports the active block after the history
CoreFetchActive ==
    \E b \in CoreActive :
        /\ findActiveBlock(blocks) = 0
        /\ blocks' = Append(blocks, b)
        /\ est' = NoEst
        /\ rate' = NoRate
        /\ UNCHANGED <<values, call, plan, now, tokenLimit, session, clock, status, monitor>>

\* NewSession on the data, under the limit in force
CoreSession ==
    /\ findActiveBlock(blocks) # 0
    /\ session = NoSession
    /\ session' = NewSession(blocks[findActiveBlock(blocks)], blocks, tokenLimit, now)
    /\ UNCHANGED <<values, call, blocks, plan, est, now, rate, tokenLimit, clock, status, monitor>>

InitCore ==
    /\ values = <<>>
    /\ call = NoCall
    /\ blocks \in CoreHistories
    /\ plan \in Plans
    /\ est = NoEst
    /\ now \in CoreNows
    /\ rate = NoRate
    /\ tokenLimit \in CoreLimits
    /\ session = NoSession
    /\ clock = now
    /\ status = NoStatus
    /\ monitor = NoMonitor

NextCore ==
    \/ AnalyzeFirst
    \/ CoreFetchActive
    \/ CoreSession

SpecCore == InitCore /\ [][NextCore]_vars

----------------------------------------------------------------------------
(* The data-driven estimate on a sample set: a history of finished blocks   *)
(* whose TotalTokens are the samples.                                       *)

MaxSamples == 6

SampleVals == {1, 2, 10, 1000}

sampleBlocks(s) == [i \in DOMAIN s |-> Blk(s[i], 1, FALSE, FALSE, 0, 290)]

estimateBranchMin4(s) ==
    IF Len(s) < MinHistoricalSessions THEN "none"
    ELSE IF Len(removeOutliers(s)) < MinCleanedSessions + 1 THEN "fallback"
    ELSE "cleaned"

\* the branch estimateFromHistory takes on the samples s
estimateBranch(s) ==
    IF Len(s) < MinHistoricalSessions THEN "none"
    ELSE IF Len(removeOutliers(s)) < MinCleanedSessions THEN "fallback"
    ELSE "cleaned"

CallEstimateFromHistory ==
    /\ call.fn = "none"
    /\ blocks' = sampleBlocks(values)
    /\ call' = [fn |-> "estimateFromHistory", arg |-> sessionMaxTokens(blocks'), p |-> 0,
                ret |-> estimateFromHistory(blocks'),
                out |-> removeOutliers(sessionMaxTokens(blocks')),
                branch |-> estimateBranch(sessionMaxTokens(blocks'))]
    /\ UNCHANGED <<values, plan, est, now, rate, tokenLimit, session, clock, status, monitor>>

InitSamples ==
    /\ values \in SeqsUpTo(SampleVals, MaxSamples)
    /\ call = NoCall
    /\ blocks = <<>>
    /\ plan = "pro"
    /\ est = NoEst
    /\ now = 600
    /\ rate = NoRate
    /\ tokenLimit = 0
    /\ session = NoSession
    /\ clock = 0
    /\ status = NoStatus
    /\ monitor = NoMonitor

NextSamples == CallEstimateFromHistory

SpecSamples == InitSamples /\ [][NextSamples]_vars

----------------------------------------------------------------------------
(* The analysis pass over histories that reach past the 10 most recent      *)
(* sessions: runs of 5 or 10 finished blocks of one kind, blocks without    *)
(* messages and gap blocks among them, and the active block.                *)

MaxRecentUnits == 3

RecentPlans == {"pro", "max5"}

RecentKinds ==
    { Blk(100, 1, FALSE, FALSE, 0, 290),
      Blk(303, 3, FALSE, FALSE, 0, 290),
      Blk(1, 1, FALSE, FALSE, 0, 290),
      Blk(50, 0, FALSE, FALSE, 0, 290),
      Blk(500, 2, FALSE, TRUE, 300, 500) }

RecentActive == { Blk(70, 7, TRUE, FALSE, 560, NoTime) }

FetchRecentRun ==
    \E b \in RecentKinds, n \in RunLens :
        /\ est # NoEst
        /\ Len(blocks) + n <= 5 * MaxRecentUnits + 1
        /\ blocks' = blocks \o Repeat(b, n)
        /\ Analyze(blocks')
        /\ UNCHANGED <<values, call, plan, now, tokenLimit, session, clock, status, monitor>>

FetchRecentActive ==
    \E b \in RecentActive :
        /\ est # NoEst
        /\ findActiveBlock(blocks) = 0
        /\ Len(blocks) + 1 <= 5 * MaxRecentUnits + 1
        /\ blocks' = Append(blocks, b)
        /\ Analyze(blocks')
        /\ UNCHANGED <<values, call, plan, now, tokenLimit, session, clock, status, monitor>>

InitRecent ==
    /\ values = <<>>
    /\ call = NoCall
    /\ blocks = <<>>
    /\ plan \in RecentPlans
    /\ est = NoEst
    /\ now \in EstNows
    /\ rate = NoRate
    /\ tokenLimit = 0
    /\ session = NoSession
    /\ clock = 0
    /\ status = NoStatus
    /\ monitor = NoMonitor

NextRecent ==
    \/ AnalyzeFirst
    \/ FetchRecentRun
    \/ FetchRecentActive

SpecRecent == InitRecent /\ [][NextRecent]_vars

----------------------------------------------------------------------------
(* Claims *)

(* C1: calculatePercentile returns 0 for an empty slice and otherwise the     *)
(* nearest-rank element: the value v of the argument with fewer than r        *)
(* elements below it and at least r elements not above it, where              *)
(* r = clamp(ceil(n*p/100), 1, n) is the 1-based rank (index r-1 of the       *)
(* ascending sort); p = 0 gives the minimum and p = 100 the maximum.          *)

NearestRank(n, p) ==
    LET r == CeilDiv(n * p, 100) IN IF r < 1 THEN 1 ELSE IF r > n THEN n ELSE r

IsRanked(xs, r, v) ==
    /\ \E i \in DOMAIN xs : xs[i] = v
    /\ Cardinality({i \in DOMAIN xs : xs[i] < v}) < r
    /\ Cardinality({i \in DOMAIN xs : xs[i] <= v}) >= r

PercentileNearestRank ==
    call.fn = "calculatePercentile" =>
        /\ Len(call.arg) = 0 => call.ret = 0
        /\ Len(call.arg) > 0 =>
              /\ IsRanked(call.arg, NearestRank(Len(call.arg), call.p), call.ret)
              /\ call.p = 0 => \A i \in DOMAIN call.arg : call.ret <= call.arg[i]
              /\ call.p = 100 => \A i \in DOMAIN call.arg : call.ret >= call.arg[i]

PercentileWitness ==
    /\ call.fn = "calculatePercentile"
    /\ call.arg = <<10, 1, 2, 2>>
    /\ call.p = 51
    /\ call.ret = 2

(* C2: every statistics function leaves the caller's slice as it was handed   *)
(* in: same elements, same order.                                             *)

StatsLeaveInputUnchanged ==
    call.fn # "none" => values = call.arg

(* C3: with fewer than 5 qualifying samples (non-gap, non-active,           *)
(* TotalTokens > 0) EstimateLimit returns exactly Messages(tier) * perItem,   *)
(* perItem being the recent per-message average when that is positive and     *)
(* 150 otherwise; with no blocks pro gives 6750 and max5 gives 33750.         *)

NumSamples(bs) ==
    Cardinality({i \in DOMAIN bs :
                    ~bs[i].IsGap /\ ~bs[i].IsActive /\ bs[i].TotalTokens > 0})

TierOf(p, bs) ==
    LET a == GetActualPlan(p, bs)
    IN  IF a \in {"pro", "max5", "max20"} THEN a ELSE "pro"

PerItem(bs) ==
    LET a == calculateAvgTokensPerMessage(bs)
    IN  IF a > 0 THEN a ELSE DefaultTokensPerMsg

ReferenceEstimate(p, bs) == baseLimitsMessages(TierOf(p, bs)) * PerItem(bs)

FewSamplesReferenceOnly ==
    (est.fn = "EstimateLimit" /\ NumSamples(blocks) < 5) =>
        /\ est.limit = ReferenceEstimate(plan, blocks)
        /\ (blocks = <<>> /\ plan = "pro") => est.limit = 6750
        /\ (blocks = <<>> /\ plan = "max5") => est.limit = 33750

FewSamplesWitness ==
    /\ est.fn = "EstimateLimit"
    /\ plan = "pro"
    /\ blocks = [i \in 1..4 |-> Blk(5000, 40, FALSE, FALSE, 0, 290)]
    /\ est.limit = 5625

(* C4, as claimed: with at least 5 qualifying samples EstimateLimit returns   *)
(* the weighted blend dataEstimate*w + referenceEstimate*(1-w) rounded to the *)
(* nearest integer.                                                           *)

BlendTenths == est.dynamic * est.weight + est.base * (10 - est.weight)

BlendRoundedToNearest ==
    (est.fn = "EstimateLimit" /\ NumSamples(blocks) >= 5) =>
        est.limit = (BlendTenths + 5) \div 10

(* C4, amended: with at least 5 qualifying samples EstimateLimit returns the  *)
(* weighted blend truncated toward zero, that is the largest integer not      *)
(* above the blend; when the blend is itself an integer and w is not 0.5 the  *)
(* float64 sum may fall just below it and the result be one less.             *)

BlendTruncated ==
    (est.fn = "EstimateLimit" /\ NumSamples(blocks) >= 5) =>
        /\ est.dynamic > 0 /\ est.base > 0 /\ est.weight > 0
        /\ \/ 10 * est.limit <= BlendTenths /\ BlendTenths < 10 * est.limit + 10
           \/ BlendTenths = 10 * est.limit + 10 /\ est.weight # 5

BlendTruncatedWitness ==
    /\ est.fn = "EstimateLimit"
    /\ NumSamples(blocks) = 20
    /\ est.dynamic = 303
    /\ est.base = 45 * 101
    /\ est.weight = WeightLargeSample
    /\ BlendTenths % 10 = 4
    /\ est.limit = BlendTenths \div 10

(* C5: the confidence weight is 0.3 below 10 qualifying samples, 0.5 below    *)
(* 20, and from 20 on 0.4 when CV > 0.5, 0.6 when 0.3 < CV <= 0.5 and 0.8     *)
(* otherwise, CV being the population standard deviation of the samples over  *)
(* their mean.  With S the sum and Q the sum of squares of the n samples,     *)
(* CV^2 = (n*Q - S^2) / S^2.                                                  *)

SumSquares(xs) == SumSeq([i \in DOMAIN xs |-> xs[i] * xs[i]])

WeightByCV(xs) ==
    LET n == Len(xs)
        S == SumSeq(xs)
        d == n * SumSquares(xs) - S * S
    IN  IF n < 10 THEN 3
        ELSE IF n < 20 THEN 5
        ELSE IF 4 * d > S * S THEN 4
        ELSE IF 100 * d > 9 * S * S THEN 6
        ELSE 8

ConfidenceWeightByCV ==
    (est.fn = "EstimateLimit" /\ est.weight # 0) =>
        est.weight = WeightByCV(sessionMaxTokens(blocks))

(* C6: gap blocks count for nothing: the limit, the values it is blended      *)
(* from, the detected plan and the burn rate of a block list are those of     *)
(* the list with its gap blocks taken out, so inserting or removing gap       *)
(* blocks changes none of them.                                               *)

IsNotGap(b) == ~b.IsGap

WithoutGaps(bs) == SelectSeq(bs, IsNotGap)

EffectiveEnd(b) ==
    IF b.IsActive THEN now
    ELSE IF b.ActualEndTime # NoTime THEN b.ActualEndTime ELSE now

SingleBlock ==
    /\ rate.fn = "Calculate"
    /\ Len(blocks) = 1
    /\ ~blocks[1].IsGap
    /\ blocks[1].StartTime # NoTime
    /\ blocks[1].StartTime <= EffectiveEnd(blocks[1])

IsOutsideWindow(b) == EffectiveEnd(b) <= now - 60 \/ b.StartTime >= now

IsInsideWindow(b) == now - 60 <= b.StartTime /\ EffectiveEnd(b) <= now

SingleBlockOutsideOrInside ==
    SingleBlock =>
        /\ (IsOutsideWindow(blocks[1]) /\ ~IsInsideWindow(blocks[1])) =>
               rate.value = RatZero
        /\ IsInsideWindow(blocks[1]) => rate.value = Rat(blocks[1].TotalTokens, 60)

(* C7, amended: for a single non-gap block the burn rate is 0 when            *)
(* [start, effective end] has no more than a point in common with the         *)
(* trailing hour, and TotalTokens/60 when it lies fully inside the hour and   *)
(* start is before the effective end; a block of no duration contributes 0.   *)

SingleBlockOutsideOrInsideTimed ==
    SingleBlock =>
        /\ IsOutsideWindow(blocks[1]) => rate.value = RatZero
        /\ (IsInsideWindow(blocks[1]) /\ blocks[1].StartTime < EffectiveEnd(blocks[1])) =>
               rate.value = Rat(blocks[1].TotalTokens, 60)
        /\ blocks[1].StartTime = EffectiveEnd(blocks[1]) => rate.value = RatZero

SingleBlockWitness ==
    /\ SingleBlock
    /\ blocks[1] = Blk(600, 10, TRUE, FALSE, 570, 590)
    /\ IsInsideWindow(blocks[1])
    /\ rate.value = <<10, 1>>

(* C8: for a single non-gap block with TotalTokens > 0 of which a part, but   *)
(* not all, falls in the trailing hour, the burn rate is                      *)
(* TotalTokens * (overlap minutes / block minutes) / 60, strictly between 0   *)
(* and TotalTokens/60, the overlap running from max(start, now-1h) to         *)
(* min(effective end, now).                                                   *)

OverlapMinutes(b) == Min2(EffectiveEnd(b), now) - Max2(b.StartTime, now - 60)

IsPartialOverlap(b) ==
    /\ b.StartTime < EffectiveEnd(b)
    /\ OverlapMinutes(b) > 0
    /\ ~IsInsideWindow(b)

PartialOverlapProportional ==
    (SingleBlock /\ blocks[1].TotalTokens > 0 /\ IsPartialOverlap(blocks[1])) =>
        LET b == blocks[1]
        IN  /\ rate.value[1] * (EffectiveEnd(b) - b.StartTime) * 60
                   = b.TotalTokens * OverlapMinutes(b) * rate.value[2]
            /\ RatLess(RatZero, rate.value)
            /\ RatLess(rate.value, Rat(b.TotalTokens, 60))

PartialOverlapWitness ==
    /\ SingleBlock
    /\ blocks[1] = Blk(600, 10, FALSE, FALSE, 510, 630)
    /\ IsPartialOverlap(blocks[1])
    /\ rate.value = <<5, 1>>

(* C9: the status is LIMIT EXCEEDED whenever the used tokens are above the    *)
(* token limit, whatever the burn rate, the time of the call and the session  *)
(* start.                                                                     *)

LimitExceededDominates ==
    (status.fn = "GetStatus" /\ session.Used > session.Limit) =>
        status.value = "LIMIT EXCEEDED"

LimitExceededWitness ==
    /\ status.fn = "GetStatus"
    /\ session.Used = 7500
    /\ session.Limit = 7000
    /\ RatPos(session.BurnRate)
    /\ status.at > now
    /\ status.value = "LIMIT EXCEEDED"

(* C10: with the used tokens not above the limit the status is WARNING        *)
(* exactly when the predicted end GetPredictedEndTime returns is before the   *)
(* session end (start + 5 hours) and OK otherwise; with no burn rate or       *)
(* nothing remaining it is OK; the status is always exactly one of the three. *)

PredictedEndIsDepletionTime ==
    status.fn = "GetStatus" =>
        IF RatPos(session.BurnRate) /\ session.Remaining > 0
        THEN LET n == session.Remaining * session.BurnRate[2]
             IN  /\ n % session.BurnRate[1] = 0
                 /\ status.predictedEnd - status.at = n \div session.BurnRate[1]
        ELSE status.predictedEnd = session.EndTime

(* C13: the session ends 300 minutes after its start whatever the block's own *)
(* end time; ProgressPercentage is (now - start) / 300 * 100 clamped to       *)
(* [0, 100] and MinutesRemaining is max(0, end - now), so the percentage      *)
(* lies in [0, 100] and the remaining minutes are never negative.             *)

TimeMetricsClamped ==
    session.fn = "NewSession" =>
        LET b == blocks[findActiveBlock(blocks)]
            e == session.at - session.StartTime
            pp == session.ProgressPercentage
        IN  /\ b.StartTime # NoTime => session.StartTime = b.StartTime
            /\ session.EndTime = session.StartTime + 300
            /\ e <= 0 => pp = <<0, 1>>
            /\ e >= 300 => pp = <<100, 1>>
            /\ (0 < e /\ e < 300) => pp[1] * 3 = e * pp[2]
            /\ pp[2] > 0 /\ 0 <= pp[1] /\ pp[1] <= 100 * pp[2]
            /\ session.MinutesRemaining >= 0
            /\ session.MinutesRemaining =
                   (IF session.EndTime > session.at
                    THEN session.EndTime - session.at ELSE 0)

TimeMetricsWitness ==
    /\ session.fn = "NewSession"
    /\ blocks[findActiveBlock(blocks)] = Blk(3000, 10, TRUE, FALSE, 450, 590)
    /\ session.at = 600
    /\ session.EndTime = 750
    /\ session.ProgressPercentage = <<50, 1>>
    /\ session.MinutesRemaining = 150

\* a negligible burn rate: the wrapped duration puts the predicted end in the past
PredictedEndWrapped ==
    /\ status.fn = "GetStatus"
    /\ session.Used <= session.Limit
    /\ status.predictedEnd < status.at
    /\ status.value = "WARNING"

(* C14: GetAccuracyReport returns a warning exactly when the estimated limit  *)
(* is not 0 and |actual - estimated| / estimated is above 10%, in either      *)
(* direction; a deviation of exactly 10% and an estimated limit of 0 give     *)
(* the empty string.                                                          *)

AbsDiff(a, b) == IF a < b THEN b - a ELSE a - b

AccuracyWarningAboveTenPercent ==
    call.fn = "GetAccuracyReport" =>
        LET actual == call.arg[1]
            estimated == call.arg[2]
        IN  /\ call.report # "" <=>
                   (estimated # 0 /\ 10 * AbsDiff(actual, estimated) > estimated)
            /\ estimated = 0 => call.report = ""
            /\ 10 * AbsDiff(actual, estimated) = estimated => call.report = ""

AccuracyWarningWitness ==
    /\ call.fn = "GetAccuracyReport"
    /\ call.arg = <<6300, 7000>>
    /\ call.report = ""

(* C11: round trip: when the token limit is a value EstimateLimit returned    *)
(* and the active block's TotalTokens equals the session's limit, the token   *)
(* metrics are Percentage = 100 and Remaining = 0 and the status is OK or     *)
(* WARNING, never LIMIT EXCEEDED.                                             *)

RoundTripAtLimit ==
    (monitor.pc # "none" /\ monitor.result = "render" /\ session.Used = session.Limit) =>
        /\ session.Limit > 0
        /\ session.Percentage = <<100, 1>>
        /\ session.Remaining = 0
        /\ status.value \in {"OK", "WARNING"}

RoundTripWitness ==
    /\ monitor.pc # "none"
    /\ monitor.initial = "EstimateLimit"
    /\ monitor.result = "render"
    /\ plan = "pro"
    /\ est.limit = 5437
    /\ tokenLimit = est.limit
    /\ session.Used = 5437
    /\ session.Limit = 5437
    /\ status.value = "OK"

(* C15: a plan string that is none of pro, max5, max20 and auto is treated as *)
(* pro: EstimateLimit gives for it what it gives for pro on the same blocks,  *)
(* the static lookup GetTokenLimit gives 7000, and the monitor starts and     *)
(* runs with that limit.                                                      *)

IsUnknownPlan(p) == p \notin {"pro", "max5", "max20", "auto"}

CycleDone(result) == monitor.pc = "sleep" /\ monitor.result = result

FailedCycleRetried ==
    /\ [][(monitor.pc = "loop" /\ monitor'.pc \notin {"loop", "exit"}
                                 /\ monitor'.result = "error") =>
              /\ monitor'.pc = "sleep"
              /\ monitor'.message # ""
              /\ tokenLimit' = tokenLimit
              /\ session' = session]_vars
    /\ [][(monitor.pc = "loop" /\ monitor.result = "error" /\ monitor'.result = "render") =>
              /\ monitor'.pc = "sleep"
              /\ monitor'.before = tokenLimit
              /\ session'.Used = blocks'[findActiveBlock(blocks')].TotalTokens
              /\ session'.Limit = tokenLimit'
              /\ (~monitor'.attempted => tokenLimit' = tokenLimit)
              /\ status'.fn = "GetStatus"]_vars
    /\ CycleDone("error") ~> (monitor.pc = "loop" \/ monitor.pc = "exit")
    /\ (monitor.pc = "loop" /\ monitor.result = "error")
           ~> (monitor.pc = "sleep" \/ monitor.pc = "exit")

FailedCycleWitness ==
    /\ monitor.pc = "sleep"
    /\ monitor.result = "render"
    /\ monitor.previous = "error"
    /\ session.Limit = tokenLimit
    /\ tokenLimit = monitor.before

(* C19: with plan pro, a successful cycle attempts the auto re-estimation     *)
(* exactly when the active block's TotalTokens is above the token limit the   *)
(* cycle started with.                                                        *)

AutoSwitchWhenLimitExceeded ==
    (monitor.pc # "none" /\ monitor.result = "render" /\ plan = "pro") =>
        (monitor.attempted <=> session.Used > monitor.before)

(* C20: removeOutliers returns its input unchanged when it has fewer than 4   *)
(* values; otherwise it returns the subsequence, in the input's order, of the *)
(* values v with Q1 - 1.5*IQR <= v <= Q3 + 1.5*IQR, where Q1 and Q3 are the   *)
(* nearest-rank 25th and 75th percentiles; the result is never longer than    *)
(* the input.                                                                 *)

Quartile(xs, p) ==
    CHOOSE v \in {xs[i] : i \in DOMAIN xs} : IsRanked(xs, NearestRank(Len(xs), p), v)

\* the bounds compared in halves, so that 1.5*IQR stays exact
WithinFences(xs, v) ==
    LET q1 == Quartile(xs, 25)
        q3 == Quartile(xs, 75)
    IN  /\ 2 * q1 - 3 * (q3 - q1) <= 2 * v
        /\ 2 * v <= 2 * q3 + 3 * (q3 - q1)

OutliersRemovedInOrder ==
    call.fn = "removeOutliers" =>
        /\ Len(call.out) <= Len(call.arg)
        /\ Len(call.arg) < 4 => call.out = call.arg
        /\ Len(call.arg) >= 4 =>
              call.out = SelectSeq(call.arg, LAMBDA v : WithinFences(call.arg, v))
        /\ values = call.arg

OutliersWitness ==
    /\ call.fn = "removeOutliers"
    /\ call.arg = <<10, 2, 1, 2>>
    /\ call.out = <<2, 1, 2>>

(* C16: with plan auto the tier follows the largest TotalTokens of the        *)
(* blocks that are neither gap nor active: 100,000 or more gives max20,       *)
(* 25,000 or more gives max5, anything else (an empty history too) gives pro; *)
(* GetActualPlan returns that tier and EstimateLimit("auto") is EstimateLimit *)
(* of that tier.                                                              *)

HistoryMax ==
    LET S == {0} \cup {blocks[i].TotalTokens :
                          i \in {j \in DOMAIN blocks : ~blocks[j].IsGap /\ ~blocks[j].IsActive}}
    IN  CHOOSE m \in S : \A x \in S : x <= m

TierOfMax(m) ==
    IF m >= 100000 THEN "max20" ELSE IF m >= 25000 THEN "max5" ELSE "pro"

AutoTierFromMaximum ==
    (est.fn = "EstimateLimit" /\ plan = "auto") =>
        /\ est.actual = TierOfMax(HistoryMax)
        /\ est.limit \in EstimateLimit(TierOfMax(HistoryMax), blocks)

(* C17: the core is total and never divides by zero: blocks with Entries = 0  *)
(* are left out of the per-message average, a block of duration 0            *)
(* contributes 0 to the burn rate, a token limit of 0 gives Percentage 0,    *)
(* the mean the coefficient of variation divides by is never 0, an empty     *)
(* history gives the default-based reference estimate, and EstimateLimit,    *)
(* Calculate and the session metrics always return a (finite) value.         *)

IsFinite(x) == x[2] > 0

History == SelectSeq(blocks, LAMBDA b : ~b.IsGap /\ ~b.IsActive)

HasNoDuration(b) == b.StartTime = NoTime \/ (~b.IsActive /\ b.ActualEndTime = b.StartTime)

DefaultReference ==
    LET tier == GetActualPlan(plan, blocks)
    IN  baseLimitsMessages(IF baseLimitsHas(tier) THEN tier ELSE "pro") * DefaultTokensPerMsg

CoreIsTotal ==
    /\ est.fn = "EstimateLimit" =>
          /\ est.limit \in Nat
          /\ est.base \in Nat
          /\ est.dynamic \in Nat
          /\ (\A i \in DOMAIN History : History[i].Entries = 0) =>
                est.base = DefaultReference
          /\ History = <<>> => (est.limit = DefaultReference /\ est.dynamic = 0)
          /\ Len(sessionMaxTokens(blocks)) >= 20 =>
                (est.weight # 0 /\ sessionMean(sessionMaxTokens(blocks)) > 0)
    /\ rate.fn = "Calculate" =>
          /\ IsFinite(rate.value)
          /\ rate.value[1] >= 0
          /\ (\A i \in DOMAIN blocks : HasNoDuration(blocks[i])) => rate.value = RatZero
    /\ session.fn = "NewSession" =>
          /\ IsFinite(session.Percentage)
          /\ IsFinite(session.BurnRate)
          /\ IsFinite(session.ProgressPercentage)
          /\ session.Limit = 0 => session.Percentage = RatZero
          /\ session.MinutesRemaining >= 0

CoreIsTotalWitness ==
    /\ est.fn = "EstimateLimit"
    /\ Len(blocks) = 21
    /\ blocks[20] = Blk(40, 3, FALSE, FALSE, 590, 590)
    /\ blocks[21] = Blk(7000, 0, TRUE, FALSE, 599, NoTime)
    /\ sessionMean(sessionMaxTokens(blocks)) = 2
    /\ session.fn = "NewSession"
    /\ session.Limit = 0
    /\ session.Used = 7000
    /\ session.Percentage = RatZero
    /\ session.BurnRate = <<350, 3>>

(* C21: both data-driven branches of estimateFromHistory are reachable: some  *)
(* sample set of at least 5 values is cleaned down to fewer than 3 values, so *)
(* that the 85th percentile of the uncleaned samples is returned, and some    *)
(* sample set has the 90th percentile of its cleaned samples returned.        *)

KeptByRank(s) == NearestRank(Len(s), 75) - NearestRank(Len(s), 25) + 1

BothBranchesReachable ==
    call.fn = "estimateFromHistory" =>
        /\ \E s \in SeqsUpTo(SampleVals, MaxSamples) :
               Len(s) >= 5 /\ estimateBranch(s) = "fallback"
        /\ \E s \in SeqsUpTo(SampleVals, MaxSamples) :
               Len(s) >= 5 /\ estimateBranch(s) = "cleaned"

(* C21, as the code has it: with at least 5 samples the values between the    *)
(* two quartiles are never removed, so at least 3 values stay and the 90th    *)
(* percentile of the cleaned samples is returned in every case.               *)

CleanedBranchOnly ==
    (call.fn = "estimateFromHistory" /\ Len(call.arg) >= 5) =>
        /\ call.branch = "cleaned"
        /\ Len(call.out) >= KeptByRank(call.arg)
        /\ KeptByRank(call.arg) >= 3
        /\ IsRanked(call.out, NearestRank(Len(call.out), 90), call.ret)

CleanedBranchWitness ==
    /\ call.fn = "estimateFromHistory"
    /\ call.arg = <<1000, 2, 1, 2, 2>>
    /\ call.out = <<2, 2, 2>>
    /\ call.branch = "cleaned"
    /\ call.ret = 2

(* C22: CalculateTrimmedMean returns 0 for empty input; with trimCount =       *)
(* floor(n*trimPercent/100), forced to 1 when it is 0 and n > 2, it returns   *)
(* the median of the values (what CalculateMedianTokens gives) when           *)
(* trimCount*2 >= n, and otherwise the integer average of the middle          *)
(* n - 2*trimCount elements of the ascending sort.                            *)

TrimCount(n, p) ==
    LET t == (n * p) \div 100 IN IF t = 0 /\ n > 2 THEN 1 ELSE t

MiddleAverage(xs, t) ==
    LET sorted == SortInts(xs)
        idx == (t + 1)..(Len(xs) - t)
    IN  SumSeq([i \in 1..(Len(xs) - 2 * t) |-> sorted[t + i]]) \div Cardinality(idx)

TrimmedMeanOrMedian ==
    call.fn = "CalculateTrimmedMean" =>
        LET n == Len(call.arg)
            t == TrimCount(n, call.p)
        IN  /\ n = 0 => call.ret = 0
            /\ (n > 0 /\ t * 2 >= n) => call.ret = CalculateMedianTokens(call.arg)
            /\ (n > 0 /\ t * 2 < n) => call.ret = MiddleAverage(call.arg, t)

(* C23: CalculateMode returns a value whose number of occurrences in the      *)
(* input is maximal (0 for empty input), and ties are broken                  *)
(* deterministically: two calls on the same input within one run return the   *)
(* same value.                                                                *)

IsMode(xs, v) ==
    IF Len(xs) = 0 THEN v = 0
    ELSE /\ \E i \in DOMAIN xs : xs[i] = v
         /\ \A i \in DOMAIN xs : Count(xs, xs[i]) <= Count(xs, v)

ModeIsDeterministic ==
    /\ [](call.fn = "CalculateMode" => IsMode(call.arg, call.ret))
    /\ [][(call.fn = "CalculateMode" /\ call'.fn = "CalculateMode" /\ call'.arg = call.arg)
             => call'.ret = call.ret]_vars

(* C24: the per-message rate of the reference estimate is the average of      *)
(* TotalTokens/Entries over the 10 most recent blocks (scanning from the end  *)
(* of the list backward) that are non-gap, non-active and have Entries > 0;   *)
(* older qualifying blocks, gap blocks, the active block and blocks with      *)
(* Entries = 0 never influence it; when no block qualifies it is 0 and the    *)
(* default of 150 tokens per message is used.                                 *)

Qualifying == {i \in DOMAIN blocks :
                  ~blocks[i].IsGap /\ ~blocks[i].IsActive /\ blocks[i].Entries > 0}

Recent10 == {i \in Qualifying : Cardinality({j \in Qualifying : j > i}) < 10}

RecentTokens == SumSeq([i \in DOMAIN blocks |-> IF i \in Recent10 THEN blocks[i].TotalTokens ELSE 0])

RecentEntries == SumSeq([i \in DOMAIN blocks |-> IF i \in Recent10 THEN blocks[i].Entries ELSE 0])

\* the sum of the blocks' own TotalTokens/Entries, each truncated to an integer
RecentRatios ==
    SumSeq([i \in DOMAIN blocks |->
               IF i \in Recent10 THEN blocks[i].TotalTokens \div blocks[i].Entries ELSE 0])

EstimateIsPositive ==
    est.fn = "EstimateLimit" =>
        /\ est.limit \in Nat \ {0}
        /\ est.base \in Nat \ {0}
        /\ est.base >= ProPlanMessages
        /\ est.avg = 0 => est.base = DefaultReference
        /\ est.dynamic > 0 =>
              /\ est.weight \in {3, 4, 5, 6, 8}
              /\ est.limit \in blend(est.dynamic, est.base, est.weight)
        /\ est.dynamic = 0 => est.limit = est.base

EstimateIsPositiveWitness ==
    /\ est.fn = "EstimateLimit"
    /\ plan = "pro"
    /\ Len(sessionMaxTokens(blocks)) = 20
    /\ est.avg = 0
    /\ est.dynamic = 1
    /\ est.base = 6750
    /\ est.weight = WeightLargeSample
    /\ est.limit = 1350

(* C26: with at least 5 qualifying samples the result of EstimateLimit lies   *)
(* between the two estimates it blends, min(data, reference) <= result <=     *)
(* max(data, reference), and equals both when they are equal.                 *)

LimitRaisedByAutoSwitch ==
    /\ plan = "pro"
    /\ monitor.pc = "loop"
    /\ monitor'.result = "render"
    /\ monitor'.attempted
    /\ session'.Used > 7000
    /\ session'.Used = blocks'[findActiveBlock(blocks')].TotalTokens
    /\ tokenLimit' \in EstimateLimit("auto", blocks')
    /\ tokenLimit' > tokenLimit

LimitNeverDecreases ==
    [][monitor.pc # "none" =>
          /\ tokenLimit' >= tokenLimit
          /\ tokenLimit' # tokenLimit => LimitRaisedByAutoSwitch]_vars

LimitRaisedWitness ==
    /\ monitor.pc = "sleep"
    /\ monitor.result = "render"
    /\ monitor.attempted
    /\ plan = "pro"
    /\ monitor.before = 6750
    /\ tokenLimit = 270000
    /\ session.Used = 7001
    /\ session.Limit = 270000

(* C28: in every rendered status bar the colour agrees with the status text   *)
(* (red with LIMIT EXCEEDED, yellow with WARNING, green with OK), although    *)
(* GetStatus and GetStatusColor each read the wall clock and time may advance *)
(* between the two.                                                           *)

ColourOf(text) ==
    IF text = "LIMIT EXCEEDED" THEN "red" ELSE IF text = "WARNING" THEN "yellow" ELSE "green"

ColourAgreesWithStatus ==
    status.fn = "renderStatusBar" => status.color = ColourOf(status.value)

(* C29: the note 'Auto-switched to auto plan' is rendered only in cycles at   *)
(* or after a cycle in which the auto-switch raised the token limit; it is    *)
(* never shown in a run in which no auto-switch has changed the limit.        *)

\* the limit getInitialTokenLimit returned
InitialLimit ==
    IF monitor.initial = "EstimateLimit" THEN est.limit ELSE GetTokenLimit(plan)

NoteOnlyAfterAutoSwitch ==
    (monitor.pc # "none" /\ monitor.result = "render" /\ status.note) =>
        tokenLimit > InitialLimit

(* C30: the burn rate is never negative and never above the sum of the        *)
(* TotalTokens of the non-gap blocks divided by 60: every block contributes   *)
(* between 0 and its own TotalTokens, also when it starts in the future, ends *)
(* before it starts, overlaps another block or has unparsable timestamps.     *)

NonGapTokens == SumSeq([i \in DOMAIN blocks |-> IF blocks[i].IsGap THEN 0 ELSE blocks[i].TotalTokens])

RatLeq(x, y) == x[1] * y[2] <= y[1] * x[2]

BurnRateBounded ==
    rate.fn = "Calculate" =>
        /\ rate.value[2] > 0
        /\ rate.value[1] >= 0
        /\ RatLeq(rate.value, <<NonGapTokens, MinutesPerHour>>)
        /\ \A i \in DOMAIN blocks :
              LET c == windowTokens(blocks[i], now, now - MinutesPerHour)
              IN  /\ c[2] > 0
                  /\ c[1] >= 0
                  /\ RatLeq(c, <<blocks[i].TotalTokens, 1>>)
                  /\ (blocks[i].StartTime = NoTime \/ blocks[i].StartTime >= now) => c = RatZero

BurnRateBoundedWitness ==
    /\ rate.fn = "Calculate"
    /\ blocks = <<Blk(600, 10, FALSE, FALSE, 630, NoTime), Blk(600, 10, FALSE, FALSE, 510, 570)>>
    /\ rate.value = <<5, 1>>

====
